---------------------------- MODULE Spec2Model ----------------------------
(***************************************************************************)
(* Model of selfdrive/car/other: CarInterface.get_params (one-time         *)
(* derivation of the vehicle parameters), CarInterface.__init__,           *)
(* CarInterface.update (per-cycle canonical state and safety events) and   *)
(* CarInterface.apply.                                                     *)
(*                                                                         *)
(* Units: speeds are integers in mm/s (0.001 m/s = 1), the commanded gas   *)
(* is an integer in 1/1000 (0.1 = 100).  Message ids are decimal.          *)
(***************************************************************************)
EXTENDS Integers, Sequences, FiniteSets, TLC

VARIABLES
  pc,                  \* "start" | "params" | "failed" | "ready"
  args,                \* the arguments of the get_params call
  CP,                  \* car.CarParams returned by get_params, then self.CP
  gas_pressed_prev,    \* self.gas_pressed_prev
  brake_pressed_prev,  \* self.brake_pressed_prev
  cruise_enabled_prev, \* self.cruise_enabled_prev
  forwarding_camera,   \* self.forwarding_camera
  frame,               \* self.frame
  CS,                  \* self.CS (CarState) after its last update
  cp_cam,              \* self.cp_cam: can_valid, can_invalid_cnt
  c,                   \* the CarControl handed to the last update()
  ret,                 \* the car.CarState returned by the last update()
  sent,                \* forwarding_camera as handed to CC.update by the last apply()
  disabled_run,        \* observer: length of the current run of cycles with cruise disabled
  disable_events       \* observer: pcmDisable events emitted during that run

self == <<gas_pressed_prev, brake_pressed_prev, cruise_enabled_prev,
          forwarding_camera, frame, CS, cp_cam>>
observers == <<disabled_run, disable_events>>
vars == <<pc, args, CP, self, c, ret, sent, observers>>

-----------------------------------------------------------------------------
(* Bounds of the model *)

\* apply() is not called more than MaxFrame times (self.frame grows without bound)
MaxFrame == 1
\* the camera channel is invalid for at most MaxCamRun cycles in a row
MaxCamRun == 101
\* the observers disabled_run and disable_events saturate here
MaxRun == 3

-----------------------------------------------------------------------------
(* values.py *)

OLD_CAR == "OLD_CARS"

ECU_CAM == 0
ECU_DSU == 1
ECU_APGS == 2

\* 0x2e4, 0x343, 0x835
ECU_FINGERPRINT(ecu) ==
  CASE ecu = ECU_CAM -> {740}
    [] ecu = ECU_DSU -> {835}
    [] ecu = ECU_APGS -> {2101}

TSS2_CAR == {}
NO_STOP_TIMER_CAR == {}

\* 0x201, the gas interceptor's message
INTERCEPTOR_MSG == 513

-----------------------------------------------------------------------------
(* Inputs *)

Candidates == {OLD_CAR, "TOYOTA PRIUS 2017", ""}
Fingerprints == SUBSET {740, 835, 2101, INTERCEPTOR_MSG}

Vins == {""}

NoArgs == [candidate |-> "", fingerprint |-> {}, vin |-> "", has_relay |-> FALSE]
NoCP == [carName |-> "none"]
NoRet == [none |-> TRUE]
NoControl == [gas |-> 0]


-----------------------------------------------------------------------------
(* selfdrive.car.is_ecu_disconnected: the ECU presence detector.  True iff   *)
(* no observed fingerprint row holds any of the ECU's expected message ids.  *)

is_ecu_disconnected(rows, ecu) ==
  \A row \in rows : \A msg \in ECU_FINGERPRINT(ecu) : msg \notin row

-----------------------------------------------------------------------------
(* CarInterface.get_params *)

\* car.CarParams.new_message(): every field at its schema default
NewCarParams ==
  [carName |-> "", carFingerprint |-> "", carVin |-> "", isPandaBlack |-> FALSE,
   safetyParam |-> 0, enableCruise |-> FALSE, lateralTuning |-> "pid",
   wheelbase |-> 0, centerToFront |-> 0,
   enableCamera |-> FALSE, enableDsu |-> FALSE, enableApgs |-> FALSE,
   enableGasInterceptor |-> FALSE, openpilotLongitudinalControl |-> FALSE,
   minEnableSpeed |-> 0,
   gasMaxBP |-> <<>>, gasMaxV |-> <<>>, kpV |-> <<>>, kiV |-> <<>>]

\* a slip that gives the locals of the per-car branch defaults
LookupCarDefaulted(cand) ==
  IF cand = OLD_CAR
    THEN [bound |-> {"stop_and_go", "tire_stiffness_factor"},
          stop_and_go |-> TRUE, tire_stiffness_factor |-> 444, safetyParam |-> 100,
          wheelbase |-> 24550, lateralTuning |-> "lqr"]
    ELSE [bound |-> {"stop_and_go", "tire_stiffness_factor"},
          stop_and_go |-> FALSE, tire_stiffness_factor |-> 1000, safetyParam |-> 0,
          wheelbase |-> 0, lateralTuning |-> "pid"]

\* lines 58-81: the per-car branch.  bound holds the locals it has assigned;
\* the others stay unbound (their value here is a placeholder never read).
\* wheelbase in 0.1 mm, tire_stiffness_factor in 1/1000
LookupCar(cand) ==
  IF cand = OLD_CAR
    THEN [bound |-> {"stop_and_go", "tire_stiffness_factor"},
          stop_and_go |-> TRUE, tire_stiffness_factor |-> 444, safetyParam |-> 100,
          wheelbase |-> 24550, lateralTuning |-> "lqr"]
    ELSE [bound |-> {},
          stop_and_go |-> FALSE, tire_stiffness_factor |-> 0, safetyParam |-> 0,
          wheelbase |-> 0, lateralTuning |-> "pid"]

\* a slip that drops the relay override
EnableCameraNoRelay(fp, cand, has_relay) ==
  is_ecu_disconnected({fp}, ECU_CAM)

EnableCamera(fp, cand, has_relay) ==
  is_ecu_disconnected({fp}, ECU_CAM) \/ has_relay

EnableDsu(fp, cand, has_relay) ==
  is_ecu_disconnected({fp}, ECU_DSU) \/ (has_relay /\ cand \in TSS2_CAR)

EnableApgs(fp, cand) == FALSE

EnableGasInterceptor(fp) == INTERCEPTOR_MSG \in fp

\* a slip that grants longitudinal control when either ECU is simulated
LongitudinalControlEither(enableCamera, enableDsu) == enableCamera \/ enableDsu

LongitudinalControl(enableCamera, enableDsu) == enableCamera /\ enableDsu

\* a slip that writes "and" for "or"
MinEnableSpeedBoth(stop_and_go, enableGasInterceptor) ==
  IF stop_and_go /\ enableGasInterceptor THEN -1000 ELSE 8494

\* a slip that forgets the stop-and-go cars
MinEnableSpeedInterceptorOnly(stop_and_go, enableGasInterceptor) ==
  IF enableGasInterceptor THEN -1000 ELSE 8494

\* -1 m/s, or 19 mph = 8.49376 m/s: for a speed v in whole mm/s, v < 8.49376 m/s
\* iff v < 8494
MinEnableSpeed(stop_and_go, enableGasInterceptor) ==
  IF stop_and_go \/ enableGasInterceptor THEN -1000 ELSE 8494

Raised == [carName |-> "raised"]

\* The record get_params returns, or Raised when it reads an unbound local
\* (tire_stiffness_factor at line 93, stop_and_go at line 117).
get_params(cand, fp, vin, has_relay) ==
  LET ret0 == NewCarParams
      car == LookupCar(cand)
      interceptor == EnableGasInterceptor(fp)
      cam == EnableCamera(fp, cand, has_relay)
      dsu == EnableDsu(fp, cand, has_relay)
  IN IF "tire_stiffness_factor" \notin car.bound \/ "stop_and_go" \notin car.bound
       THEN Raised
       ELSE [ret0 EXCEPT
               !.carName = "other",
               !.carFingerprint = cand,
               !.carVin = vin,
               !.isPandaBlack = has_relay,
               !.enableCruise = ~ ret0.enableGasInterceptor,
               !.safetyParam = car.safetyParam,
               !.wheelbase = car.wheelbase,
               !.lateralTuning = car.lateralTuning,
               !.centerToFront = car.wheelbase \div 2,
               !.enableCamera = cam,
               !.enableDsu = dsu,
               !.enableApgs = EnableApgs(fp, cand),
               !.enableGasInterceptor = interceptor,
               !.openpilotLongitudinalControl = LongitudinalControl(cam, dsu),
               !.minEnableSpeed = MinEnableSpeed(car.stop_and_go, interceptor),
               !.gasMaxBP = IF interceptor THEN <<0, 9, 35>> ELSE <<0>>,
               !.gasMaxV = IF interceptor THEN <<200, 500, 700>> ELSE <<500>>,
               !.kpV = IF interceptor THEN <<1200, 800, 500>> ELSE <<3600, 2400, 1500>>,
               !.kiV = IF interceptor THEN <<180, 120>> ELSE <<540, 360>>]


-----------------------------------------------------------------------------
(* The external collaborators of update(): CarState, the camera parser and   *)
(* create_event                                                              *)

\* one cycle's decoded signals
Nominal ==
  [v_ego |-> 9000, gear_shifter |-> "drive", pedal_gas |-> 0, brake_pressed |-> 0,
   pcm_acc_active |-> FALSE, pcm_acc_status |-> 8, main_on |-> TRUE,
   left_blinker_on |-> 0, right_blinker_on |-> 0,
   door_all_closed |-> TRUE, seatbelt |-> TRUE, esp_disabled |-> FALSE,
   steer_error |-> FALSE, low_speed_lockout |-> FALSE]

\* CarState(CP): nothing decoded yet, blinkers off
NewCarState ==
  [s \in DOMAIN Nominal \cup {"prev_left_blinker_on", "prev_right_blinker_on"} |->
     IF s \in DOMAIN Nominal THEN Nominal[s] ELSE 0]

\* CarState.update(cp): keeps the previous cycle's blinkers, takes the new signals
CarStateUpdate(cs, snap) ==
  [s \in DOMAIN cs |->
     CASE s = "prev_left_blinker_on" -> cs.left_blinker_on
       [] s = "prev_right_blinker_on" -> cs.right_blinker_on
       [] OTHER -> snap[s]]

\* CANParser.update_strings on the camera channel: validity of this cycle and
\* the number of consecutive invalid cycles
NewCamParser == [can_valid |-> FALSE, can_invalid_cnt |-> 0]

CamParserUpdate(cam, ok) ==
  [can_valid |-> ok, can_invalid_cnt |-> IF ok THEN 0 ELSE cam.can_invalid_cnt + 1]

create_event(name, types) == [name |-> name, types |-> types]

If(cond, event) == IF cond THEN <<event>> ELSE <<>>


-----------------------------------------------------------------------------
(* CarInterface.update: the canonical state *)

\* a slip in the comparison: >= 15
GasPressedGe(cp, cs) ==
  IF cp.enableGasInterceptor THEN cs.pedal_gas >= 15 ELSE cs.pedal_gas > 0

GasPressed(cp, cs) ==
  IF cp.enableGasInterceptor THEN cs.pedal_gas > 15 ELSE cs.pedal_gas > 0

BrakePressed(cs) == cs.brake_pressed # 0

\* a slip that reports the old blinker value as "pressed"
ButtonEventsStale(cs) ==
  If(cs.left_blinker_on # cs.prev_left_blinker_on,
     [type |-> "leftBlinker", pressed |-> cs.prev_left_blinker_on # 0])
  \o If(cs.right_blinker_on # cs.prev_right_blinker_on,
        [type |-> "rightBlinker", pressed |-> cs.prev_right_blinker_on # 0])

ButtonEvents(cs) ==
  If(cs.left_blinker_on # cs.prev_left_blinker_on,
     [type |-> "leftBlinker", pressed |-> cs.left_blinker_on # 0])
  \o If(cs.right_blinker_on # cs.prev_right_blinker_on,
        [type |-> "rightBlinker", pressed |-> cs.right_blinker_on # 0])

\* lines 150-223: the message before its events are attached
CarStateMessage(cp, cs) ==
  [vEgo |-> cs.v_ego,
   gearShifter |-> cs.gear_shifter,
   gasPressed |-> GasPressed(cp, cs),
   brakePressed |-> BrakePressed(cs),
   cruiseEnabled |-> cs.pcm_acc_active,
   cruiseAvailable |-> cs.main_on,
   cruiseStandstill |->
     IF cp.carFingerprint \in NO_STOP_TIMER_CAR \/ cp.enableGasInterceptor
       THEN FALSE ELSE cs.pcm_acc_status = 7,
   buttonEvents |-> ButtonEvents(cs),
   leftBlinker |-> cs.left_blinker_on # 0,
   rightBlinker |-> cs.right_blinker_on # 0,
   doorOpen |-> ~ cs.door_all_closed,
   seatbeltUnlatched |-> ~ cs.seatbelt,
   events |-> <<>>]

-----------------------------------------------------------------------------
(* CarInterface.update: the events *)

\* a slip in the comparison: fires one cycle late
CameraEventsLate(cam, cp) ==
  If(cam.can_invalid_cnt > 100 /\ cp.enableCamera,
     create_event("invalidGiraffeToyota", {"PERMANENT"}))

CameraEvents(cam, cp) ==
  If(cam.can_invalid_cnt >= 100 /\ cp.enableCamera,
     create_event("invalidGiraffeToyota", {"PERMANENT"}))

\* a slip that chains the rules with elif, so that the first one wins
LevelEventsChained(cp, cs, msg) ==
  CASE msg.gearShifter # "drive" /\ cp.enableDsu ->
         <<create_event("wrongGear", {"NO_ENTRY", "SOFT_DISABLE"})>>
    [] msg.doorOpen ->
         <<create_event("doorOpen", {"NO_ENTRY", "SOFT_DISABLE"})>>
    [] msg.seatbeltUnlatched ->
         <<create_event("seatbeltNotLatched", {"NO_ENTRY", "SOFT_DISABLE"})>>
    [] cs.esp_disabled /\ cp.enableDsu ->
         <<create_event("espDisabled", {"NO_ENTRY", "SOFT_DISABLE"})>>
    [] ~ cs.main_on /\ cp.enableDsu ->
         <<create_event("wrongCarMode", {"NO_ENTRY", "USER_DISABLE"})>>
    [] msg.gearShifter = "reverse" /\ cp.enableDsu ->
         <<create_event("reverseGear", {"NO_ENTRY", "IMMEDIATE_DISABLE"})>>
    [] cs.steer_error ->
         <<create_event("steerTempUnavailable", {"NO_ENTRY", "WARNING"})>>
    [] cs.low_speed_lockout /\ cp.enableDsu ->
         <<create_event("lowSpeedLockout", {"NO_ENTRY", "PERMANENT"})>>
    [] OTHER -> <<>>

LevelEvents(cp, cs, msg) ==
  If(msg.gearShifter # "drive" /\ cp.enableDsu,
     create_event("wrongGear", {"NO_ENTRY", "SOFT_DISABLE"}))
  \o If(msg.doorOpen,
        create_event("doorOpen", {"NO_ENTRY", "SOFT_DISABLE"}))
  \o If(msg.seatbeltUnlatched,
        create_event("seatbeltNotLatched", {"NO_ENTRY", "SOFT_DISABLE"}))
  \o If(cs.esp_disabled /\ cp.enableDsu,
        create_event("espDisabled", {"NO_ENTRY", "SOFT_DISABLE"}))
  \o If(~ cs.main_on /\ cp.enableDsu,
        create_event("wrongCarMode", {"NO_ENTRY", "USER_DISABLE"}))
  \o If(msg.gearShifter = "reverse" /\ cp.enableDsu,
        create_event("reverseGear", {"NO_ENTRY", "IMMEDIATE_DISABLE"}))
  \o If(cs.steer_error,
        create_event("steerTempUnavailable", {"NO_ENTRY", "WARNING"}))
  \o If(cs.low_speed_lockout /\ cp.enableDsu,
        create_event("lowSpeedLockout", {"NO_ENTRY", "PERMANENT"}))

\* a slip in the indentation: the two inner checks leave the outer if
SpeedEventsFlat(cp, vEgo, gas) ==
  If(vEgo < cp.minEnableSpeed /\ cp.enableDsu,
     create_event("speedTooLow", {"NO_ENTRY"}))
  \o If(gas > 100, create_event("speedTooLow", {"IMMEDIATE_DISABLE"}))
  \o If(vEgo < 1, create_event("manualRestart", {"WARNING"}))

\* gas > 0.1, vEgo < 0.001
SpeedEvents(cp, vEgo, gas) ==
  IF vEgo < cp.minEnableSpeed /\ cp.enableDsu
    THEN <<create_event("speedTooLow", {"NO_ENTRY"})>>
         \o If(gas > 100, create_event("speedTooLow", {"IMMEDIATE_DISABLE"}))
         \o If(vEgo < 1, create_event("manualRestart", {"WARNING"}))
    ELSE <<>>

\* a slip that makes the second branch an if of its own, on the old flag
CruiseEventsBoth(enabled, prev) ==
  If(enabled /\ ~ prev, create_event("pcmEnable", {"ENABLE"}))
  \o If(~ prev, create_event("pcmDisable", {"USER_DISABLE"}))

\* a slip that drops the edge detection
CruiseEventsLevel(enabled, prev) ==
  IF enabled
    THEN <<create_event("pcmEnable", {"ENABLE"})>>
    ELSE <<create_event("pcmDisable", {"USER_DISABLE"})>>

CruiseEvents(enabled, prev) ==
  IF enabled /\ ~ prev
    THEN <<create_event("pcmEnable", {"ENABLE"})>>
    ELSE If(~ enabled, create_event("pcmDisable", {"USER_DISABLE"}))

\* a slip that drops the edge detection of the gas pedal
OverrideEventsLevel(msg, gas_prev, brake_prev) ==
  If(msg.gasPressed
       \/ (msg.brakePressed /\ (~ brake_prev \/ msg.vEgo > 1)),
     create_event("pedalPressed", {"NO_ENTRY", "USER_DISABLE"}))

\* a slip in the comparison: vEgo >= 0.001
OverrideEventsGe(msg, gas_prev, brake_prev) ==
  If((msg.gasPressed /\ ~ gas_prev)
       \/ (msg.brakePressed /\ (~ brake_prev \/ msg.vEgo >= 1)),
     create_event("pedalPressed", {"NO_ENTRY", "USER_DISABLE"}))

\* vEgo > 0.001
OverrideEvents(msg, gas_prev, brake_prev) ==
  If((msg.gasPressed /\ ~ gas_prev)
       \/ (msg.brakePressed /\ (~ brake_prev \/ msg.vEgo > 1)),
     create_event("pedalPressed", {"NO_ENTRY", "USER_DISABLE"}))

PreEnableEvents(msg) ==
  If(msg.gasPressed, create_event("pedalPressed", {"PRE_ENABLE"}))

\* a slip that makes the pre-enable check an elif of the override check
EventsPedalElif(cp, cs, cam, gas, msg, gas_prev, brake_prev, cruise_prev) ==
  CameraEvents(cam, cp)
  \o LevelEvents(cp, cs, msg)
  \o SpeedEvents(cp, msg.vEgo, gas)
  \o CruiseEvents(msg.cruiseEnabled, cruise_prev)
  \o (IF OverrideEvents(msg, gas_prev, brake_prev) # <<>>
        THEN OverrideEvents(msg, gas_prev, brake_prev)
        ELSE PreEnableEvents(msg))

\* a slip that moves the camera check to the end of the rules
EventsCameraLast(cp, cs, cam, gas, msg, gas_prev, brake_prev, cruise_prev) ==
  LevelEvents(cp, cs, msg)
  \o SpeedEvents(cp, msg.vEgo, gas)
  \o CruiseEvents(msg.cruiseEnabled, cruise_prev)
  \o OverrideEvents(msg, gas_prev, brake_prev)
  \o PreEnableEvents(msg)
  \o CameraEvents(cam, cp)

\* lines 226-271: the list is built afresh, one rule after the other
Events(cp, cs, cam, gas, msg, gas_prev, brake_prev, cruise_prev) ==
  CameraEvents(cam, cp)
  \o LevelEvents(cp, cs, msg)
  \o SpeedEvents(cp, msg.vEgo, gas)
  \o CruiseEvents(msg.cruiseEnabled, cruise_prev)
  \o OverrideEvents(msg, gas_prev, brake_prev)
  \o PreEnableEvents(msg)


-----------------------------------------------------------------------------
(* The signals and commands the cycles are run on *)

\* pedals, cruise and main switch around standstill (0.001 and 0.002 m/s)
PedalSnapshots ==
  {[Nominal EXCEPT !.v_ego = v, !.pedal_gas = g, !.brake_pressed = b,
                   !.pcm_acc_active = a, !.main_on = m] :
     v \in {1, 2}, g \in {0, 15, 16}, b \in {0, 1}, a \in BOOLEAN, m \in BOOLEAN}

\* every combination of what rules 2-9 read
LevelSnapshots ==
  {[Nominal EXCEPT !.gear_shifter = g, !.door_all_closed = d, !.seatbelt = b,
                   !.esp_disabled = e, !.main_on = m, !.steer_error = s,
                   !.low_speed_lockout = l] :
     g \in {"drive", "reverse", "park"}, d \in BOOLEAN, b \in BOOLEAN, e \in BOOLEAN,
     m \in BOOLEAN, s \in BOOLEAN, l \in BOOLEAN}

\* every rule's condition at once
Worst ==
  [v_ego |-> -2000, gear_shifter |-> "reverse", pedal_gas |-> 16, brake_pressed |-> 1,
   pcm_acc_active |-> FALSE, pcm_acc_status |-> 7, main_on |-> FALSE,
   left_blinker_on |-> 1, right_blinker_on |-> 1,
   door_all_closed |-> FALSE, seatbelt |-> FALSE, esp_disabled |-> TRUE,
   steer_error |-> TRUE, low_speed_lockout |-> TRUE]

\* speeds around -1 m/s and standstill
SpeedSnapshots ==
  {[Nominal EXCEPT !.v_ego = v] : v \in {-2000, -1001, -1000, 0, 1}}

\* commanded gas around 0.1
GasCommands == {0, 100, 101}

BlinkerSnapshots ==
  {[Nominal EXCEPT !.left_blinker_on = l, !.right_blinker_on = r] :
     l \in {0, 1}, r \in {0, 1}}

-----------------------------------------------------------------------------
(* State machine *)

Init ==
  /\ pc = "start"
  /\ args = NoArgs
  /\ CP = NoCP
  /\ gas_pressed_prev = FALSE
  /\ brake_pressed_prev = FALSE
  /\ cruise_enabled_prev = FALSE
  /\ forwarding_camera = FALSE
  /\ frame = 0
  /\ CS = NewCarState
  /\ cp_cam = NewCamParser
  /\ c = NoControl
  /\ ret = NoRet
  /\ sent = <<>>
  /\ disabled_run = 0
  /\ disable_events = 0

\* CarInterface.get_params(candidate, fingerprint, vin, has_relay)
GetParams ==
  /\ pc = "start"
  /\ \E cand \in Candidates, fp \in Fingerprints, vin \in Vins, has_relay \in BOOLEAN :
       LET r == get_params(cand, fp, vin, has_relay)
       IN /\ args' = [candidate |-> cand, fingerprint |-> fp, vin |-> vin,
                      has_relay |-> has_relay]
          /\ IF r = Raised
               THEN pc' = "failed" /\ CP' = NoCP
               ELSE pc' = "params" /\ CP' = r
  /\ UNCHANGED <<self, c, ret, sent, observers>>

\* CarInterface.__init__(CP, CarController)
Construct ==
  /\ pc = "params"
  /\ pc' = "ready"
  /\ args' = NoArgs
  /\ gas_pressed_prev' = FALSE
  /\ brake_pressed_prev' = FALSE
  /\ cruise_enabled_prev' = FALSE
  /\ forwarding_camera' = FALSE
  /\ frame' = 0
  /\ CS' = NewCarState
  /\ cp_cam' = NewCamParser
  /\ UNCHANGED <<CP, c, ret, sent, observers>>

\* a slip that follows the channel instead of latching
ForwardingCameraLevel(cam, forwarding) == cam.can_valid

\* lines 227-228: set once the camera channel is valid, never cleared
ForwardingCamera(cam, forwarding) == IF cam.can_valid THEN TRUE ELSE forwarding

\* CarInterface.update(c, can_strings): can_strings decode to the signals snap
\* and to a camera channel that is valid (ok) or not
Cycle(snap, gas, ok) ==
  /\ pc = "ready"
  /\ LET cam == CamParserUpdate(cp_cam, ok)
         cs == CarStateUpdate(CS, snap)
         msg == CarStateMessage(CP, cs)
         events == Events(CP, cs, cam, gas, msg,
                          gas_pressed_prev, brake_pressed_prev, cruise_enabled_prev)
     IN /\ cp_cam' = cam
        /\ CS' = cs
        /\ forwarding_camera' = ForwardingCamera(cam, forwarding_camera)
        /\ ret' = [msg EXCEPT !.events = events]
        /\ gas_pressed_prev' = msg.gasPressed
        /\ brake_pressed_prev' = msg.brakePressed
        /\ cruise_enabled_prev' = msg.cruiseEnabled
  /\ c' = [gas |-> gas]
  /\ UNCHANGED <<pc, args, CP, frame, sent>>


Min(a, b) == IF a < b THEN a ELSE b

\* how many events of the list are the given one
CountEvents(events, name, types) ==
  Cardinality({i \in DOMAIN events : events[i] = create_event(name, types)})

\* update() on pedal, cruise and main-switch signals; the observers follow the
\* run of cycles with cruise disabled
Update ==
  /\ \E snap \in PedalSnapshots : Cycle(snap, 0, TRUE)
  /\ disabled_run' =
       IF ret'.cruiseEnabled THEN 0 ELSE Min(disabled_run + 1, MaxRun)
  /\ disable_events' =
       IF ret'.cruiseEnabled THEN 0
       ELSE Min(disable_events
                  + CountEvents(ret'.events, "pcmDisable", {"USER_DISABLE"}), MaxRun)

\* update() on the signals of the level rules and of the speed rule
UpdateLevel ==
  /\ \/ \E snap \in LevelSnapshots : Cycle(snap, 0, TRUE)
     \/ \E snap \in SpeedSnapshots, gas \in GasCommands : Cycle(snap, gas, TRUE)
  /\ UNCHANGED observers

\* update() on the blinker signals
UpdateBlinker ==
  /\ \E snap \in BlinkerSnapshots : Cycle(snap, 0, TRUE)
  /\ UNCHANGED observers

\* update() with the camera channel valid or not
UpdateLink ==
  /\ \E snap \in {Nominal, Worst}, ok \in BOOLEAN :
       /\ ok \/ cp_cam.can_invalid_cnt < MaxCamRun
       /\ Cycle(snap, 101, ok)
  /\ UNCHANGED observers

\* a slip that stores the latch into the parameters
ApplyWritesParams ==
  /\ pc = "ready"
  /\ frame < MaxFrame
  /\ sent' = <<forwarding_camera>>
  /\ frame' = frame + 1
  /\ CP' = [CP EXCEPT !.enableCamera = forwarding_camera]
  /\ UNCHANGED <<pc, args, gas_pressed_prev, brake_pressed_prev,
                 cruise_enabled_prev, forwarding_camera, CS, cp_cam, c, ret,
                 observers>>

\* a slip that clears the gas flag when the command is sent
ApplyClearsFlag ==
  /\ pc = "ready"
  /\ frame < MaxFrame
  /\ sent' = <<forwarding_camera>>
  /\ frame' = frame + 1
  /\ gas_pressed_prev' = FALSE
  /\ UNCHANGED <<pc, args, CP, brake_pressed_prev, cruise_enabled_prev,
                 forwarding_camera, CS, cp_cam, c, ret, observers>>

\* CarInterface.apply(c)
Apply ==
  /\ pc = "ready"
  /\ frame < MaxFrame
  /\ sent' = <<forwarding_camera>>
  /\ frame' = frame + 1
  /\ UNCHANGED <<pc, args, CP, gas_pressed_prev, brake_pressed_prev,
                 cruise_enabled_prev, forwarding_camera, CS, cp_cam, c, ret,
                 observers>>

Next == GetParams \/ Construct \/ Update \/ Apply
Spec == Init /\ [][Next]_vars

NextLevel == GetParams \/ Construct \/ UpdateLevel
SpecLevel == Init /\ [][NextLevel]_vars

NextBlinker == GetParams \/ Construct \/ UpdateBlinker \/ Apply
SpecBlinker == Init /\ [][NextBlinker]_vars

NextLink == GetParams \/ Construct \/ UpdateLink \/ Apply
SpecLink == Init /\ [][NextLink]_vars


-----------------------------------------------------------------------------
(* Properties *)

\* a step of update(): the instance exists before and after, and apply() did not run
UpdateCycle == pc = "ready" /\ pc' = "ready" /\ frame' = frame

\* a state some update() has returned into
Updated == pc = "ready" /\ ret # NoRet

WithType(events, t) == {i \in DOMAIN events : t \in events[i].types}
Named(events, name) == {i \in DOMAIN events : events[i].name = name}

\* the flags of the previous cycle as the previous update() returned them
\* (FALSE before the first call)
PrevGasPressed == IF ret = NoRet THEN FALSE ELSE ret.gasPressed
PrevBrakePressed == IF ret = NoRet THEN FALSE ELSE ret.brakePressed
PrevCruiseEnabled == IF ret = NoRet THEN FALSE ELSE ret.cruiseEnabled

\* C1 as stated: in a cycle where cruiseState.enabled goes from false to true the
\* list holds exactly one event with severity ENABLE and no event at all whose
\* severities include USER_DISABLE.
C1_EngageNoUserDisable ==
  [][(UpdateCycle /\ ~ PrevCruiseEnabled /\ ret'.cruiseEnabled)
       => /\ Cardinality(WithType(ret'.events, "ENABLE")) = 1
          /\ WithType(ret'.events, "USER_DISABLE") = {}]_vars

\* C1 amended: in a cycle where cruiseState.enabled goes from false to true the
\* list holds exactly one event with severity ENABLE, which is pcmEnable, and no
\* pcmDisable; an event with USER_DISABLE in that cycle is the wrongCarMode of
\* rule 6 or the pedalPressed of rule 12.
C1_EngageOnce ==
  [][(UpdateCycle /\ ~ PrevCruiseEnabled /\ ret'.cruiseEnabled)
       => /\ Cardinality(WithType(ret'.events, "ENABLE")) = 1
          /\ CountEvents(ret'.events, "pcmEnable", {"ENABLE"}) = 1
          /\ Named(ret'.events, "pcmDisable") = {}
          /\ \A i \in WithType(ret'.events, "USER_DISABLE") :
               ret'.events[i] \in
                 {create_event("wrongCarMode", {"NO_ENTRY", "USER_DISABLE"}),
                  create_event("pedalPressed", {"NO_ENTRY", "USER_DISABLE"})}]_vars

\* C1 witness: a cycle has engaged cruise while a pedal override fired
C1_Witness ==
  /\ Updated
  /\ CountEvents(ret.events, "pcmEnable", {"ENABLE"}) = 1
  /\ CountEvents(ret.events, "pedalPressed", {"NO_ENTRY", "USER_DISABLE"}) = 1

\* C2: every cycle with cruise disabled emits exactly one pcmDisable
\* {USER_DISABLE} and no engage-request, so a run of K such cycles has emitted
\* exactly K of them; a cycle where cruise stays enabled emits neither.
C2_DisengageEveryCycle ==
  /\ [](disable_events = disabled_run)
  /\ [][UpdateCycle
          => /\ ~ ret'.cruiseEnabled
                  => /\ CountEvents(ret'.events, "pcmDisable", {"USER_DISABLE"}) = 1
                     /\ Cardinality(Named(ret'.events, "pcmDisable")) = 1
                     /\ Named(ret'.events, "pcmEnable") = {}
                     /\ WithType(ret'.events, "ENABLE") = {}
             /\ (PrevCruiseEnabled /\ ret'.cruiseEnabled)
                  => /\ Named(ret'.events, "pcmEnable") = {}
                     /\ Named(ret'.events, "pcmDisable") = {}]_vars

\* C2 witness: MaxRun cycles in a row with cruise disabled, MaxRun pcmDisable events
C2_Witness ==
  /\ Updated
  /\ disabled_run = MaxRun
  /\ disable_events = MaxRun

\* C3: the driver-override event, pedalPressed {NO_ENTRY, USER_DISABLE}, is in
\* the list (once) iff gas is pressed now and was not in the previous cycle, or
\* the brake is pressed now and was not in the previous cycle, or the brake is
\* pressed now and the speed is above 0.001.
C3_DriverOverride ==
  [][UpdateCycle
       => CountEvents(ret'.events, "pedalPressed", {"NO_ENTRY", "USER_DISABLE"})
            = IF \/ ret'.gasPressed /\ ~ PrevGasPressed
                 \/ ret'.brakePressed /\ ~ PrevBrakePressed
                 \/ ret'.brakePressed /\ ret'.vEgo > 1
                THEN 1 ELSE 0]_vars

\* C3 witness: the brake is held at a speed of 0.001 and no override is emitted
C3_Witness ==
  /\ Updated
  /\ ret.brakePressed
  /\ ret.vEgo <= 1
  /\ Named(ret.events, "pedalPressed") = {}


\* C4: speedTooLow {IMMEDIATE_DISABLE} and manualRestart {WARNING} are in the
\* list only after a speedTooLow {NO_ENTRY} of the same list, that is only with
\* speed < minEnableSpeed and the DSU simulated; the first also needs a
\* commanded gas above 0.1, the second a speed below 0.001.
C4_SpeedSubclauses ==
  Updated =>
    \A i \in DOMAIN ret.events :
      LET immediate == ret.events[i] = create_event("speedTooLow", {"IMMEDIATE_DISABLE"})
          restart == ret.events[i] = create_event("manualRestart", {"WARNING"})
      IN (immediate \/ restart)
           => /\ \E j \in 1..(i - 1) :
                   ret.events[j] = create_event("speedTooLow", {"NO_ENTRY"})
              /\ ret.vEgo < CP.minEnableSpeed
              /\ CP.enableDsu
              /\ immediate => c.gas > 100
              /\ restart => ret.vEgo < 1

\* C4 witness: a cycle below minEnableSpeed has emitted both sub-clauses
C4_Witness ==
  /\ Updated
  /\ CountEvents(ret.events, "speedTooLow", {"IMMEDIATE_DISABLE"}) = 1
  /\ CountEvents(ret.events, "manualRestart", {"WARNING"}) = 1

\* the condition of each of rules 2-9 and its tabulated severities
LevelRules ==
  {<<"wrongGear", {"NO_ENTRY", "SOFT_DISABLE"},
     CS.gear_shifter # "drive" /\ CP.enableDsu>>,
   <<"doorOpen", {"NO_ENTRY", "SOFT_DISABLE"}, ~ CS.door_all_closed>>,
   <<"seatbeltNotLatched", {"NO_ENTRY", "SOFT_DISABLE"}, ~ CS.seatbelt>>,
   <<"espDisabled", {"NO_ENTRY", "SOFT_DISABLE"}, CS.esp_disabled /\ CP.enableDsu>>,
   <<"wrongCarMode", {"NO_ENTRY", "USER_DISABLE"}, ~ CS.main_on /\ CP.enableDsu>>,
   <<"reverseGear", {"NO_ENTRY", "IMMEDIATE_DISABLE"},
     CS.gear_shifter = "reverse" /\ CP.enableDsu>>,
   <<"steerTempUnavailable", {"NO_ENTRY", "WARNING"}, CS.steer_error>>,
   <<"lowSpeedLockout", {"NO_ENTRY", "PERMANENT"},
     CS.low_speed_lockout /\ CP.enableDsu>>}

\* C7: each event of rules 2-9 is in the list exactly once, with its tabulated
\* severities, if its own condition holds and not at all otherwise, whatever
\* the conditions of the other rules are.
C7_LevelRulesIndependent ==
  Updated =>
    \A rule \in LevelRules :
      /\ CountEvents(ret.events, rule[1], rule[2]) = IF rule[3] THEN 1 ELSE 0
      /\ Cardinality(Named(ret.events, rule[1])) = IF rule[3] THEN 1 ELSE 0

\* C7 witness: door open and stability control disabled with the DSU simulated,
\* the other rules quiet: the list holds doorOpen and espDisabled
C7_Witness ==
  /\ Updated
  /\ CP.enableDsu
  /\ ~ CS.door_all_closed
  /\ CS.esp_disabled
  /\ {rule[1] : rule \in {r \in LevelRules : r[3]}} = {"doorOpen", "espDisabled"}
  /\ CountEvents(ret.events, "doorOpen", {"NO_ENTRY", "SOFT_DISABLE"}) = 1
  /\ CountEvents(ret.events, "espDisabled", {"NO_ENTRY", "SOFT_DISABLE"}) = 1


\* C5 as stated: invalidGiraffeToyota {PERMANENT} is in the list iff the camera
\* channel has been invalid for 100 cycles or more and the camera is expected
\* real, that is not simulated (enableCamera false).
C5_LinkLostCameraReal ==
  Updated =>
    (Named(ret.events, "invalidGiraffeToyota") # {}
       <=> (cp_cam.can_invalid_cnt >= 100 /\ ~ CP.enableCamera))

\* C5 amended: invalidGiraffeToyota {PERMANENT} is in the list (once) iff the
\* camera channel has been invalid for 100 cycles or more and the camera is
\* simulated (enableCamera true): not at count 99, at count 100 and in every
\* later cycle while the count stays at 100 or more.
C5_LinkLostCameraSimulated ==
  Updated =>
    /\ CountEvents(ret.events, "invalidGiraffeToyota", {"PERMANENT"})
         = IF cp_cam.can_invalid_cnt >= 100 /\ CP.enableCamera THEN 1 ELSE 0
    /\ Cardinality(Named(ret.events, "invalidGiraffeToyota"))
         = IF cp_cam.can_invalid_cnt >= 100 /\ CP.enableCamera THEN 1 ELSE 0

\* C5 witness: the 100th invalid cycle in a row, camera simulated, event emitted
C5_Witness ==
  /\ Updated
  /\ cp_cam.can_invalid_cnt = 100
  /\ CP.enableCamera
  /\ ret.events[1] = create_event("invalidGiraffeToyota", {"PERMANENT"})

ButtonEventsOf(events, type) == {i \in DOMAIN events : events[i].type = type}

\* C6: a cycle emits a button event for a blinker iff the blinker differs from
\* its value in the previous cycle, exactly one then, carrying the new value as
\* "pressed"; cycles that leave the blinker unchanged emit none for it.
C6_BlinkerEdges ==
  [][UpdateCycle
       => /\ Cardinality(ButtonEventsOf(ret'.buttonEvents, "leftBlinker"))
               = IF CS'.left_blinker_on # CS.left_blinker_on THEN 1 ELSE 0
          /\ Cardinality(ButtonEventsOf(ret'.buttonEvents, "rightBlinker"))
               = IF CS'.right_blinker_on # CS.right_blinker_on THEN 1 ELSE 0
          /\ \A i \in ButtonEventsOf(ret'.buttonEvents, "leftBlinker") :
               ret'.buttonEvents[i].pressed = (CS'.left_blinker_on # 0)
          /\ \A i \in ButtonEventsOf(ret'.buttonEvents, "rightBlinker") :
               ret'.buttonEvents[i].pressed = (CS'.right_blinker_on # 0)
          /\ Len(ret'.buttonEvents)
               = Cardinality(ButtonEventsOf(ret'.buttonEvents, "leftBlinker"))
                 + Cardinality(ButtonEventsOf(ret'.buttonEvents, "rightBlinker"))]_vars

\* C6 witness: one cycle has switched the left blinker on and the right one off
C6_Witness ==
  /\ Updated
  /\ ret.buttonEvents = <<[type |-> "leftBlinker", pressed |-> TRUE],
                          [type |-> "rightBlinker", pressed |-> FALSE]>>

\* C8: get_params on a candidate outside the registry fails and returns no
\* parameters; the parameters it does return are those of a registered car.
C8_UnknownRejected ==
  /\ (pc \in {"params", "failed"} /\ args.candidate # OLD_CAR)
       => (pc = "failed" /\ CP = NoCP)
  /\ pc \in {"params", "ready"} => CP.carFingerprint = OLD_CAR

\* C8 witness: a call with an unknown candidate has failed
C8_Witness ==
  /\ pc = "failed"
  /\ args.candidate = "TOYOTA PRIUS 2017"
  /\ CP = NoCP

\* C9 as stated: with has_relay true, enableCamera and enableDsu are both true.
C9_RelayForcesBoth ==
  (pc = "params" /\ args.has_relay) => (CP.enableCamera /\ CP.enableDsu)

\* C9 amended: with has_relay true, enableCamera is true whatever the detector
\* returns; enableDsu is forced only for a car of TSS2_CAR, and is otherwise
\* what the detector returns for the DSU.
C9_RelayForcesCamera ==
  (pc = "params" /\ args.has_relay)
    => /\ CP.enableCamera
       /\ CP.enableDsu
            <=> (is_ecu_disconnected({args.fingerprint}, ECU_DSU)
                   \/ args.candidate \in TSS2_CAR)

\* C9 witness: relay present, camera and DSU both seen on the bus: the camera
\* is reported simulated, the DSU is not
C9_Witness ==
  /\ pc = "params"
  /\ args.has_relay
  /\ ~ is_ecu_disconnected({args.fingerprint}, ECU_CAM)
  /\ ~ is_ecu_disconnected({args.fingerprint}, ECU_DSU)
  /\ CP.enableCamera
  /\ ~ CP.enableDsu

\* C10 as stated: each of the three flags is what the detector returns for its
\* ECU (with the relay overrides of the camera and the DSU), so enableApgs is
\* true when the detector reports the parking-assist ECU absent; longitudinal
\* control is enableCamera and enableDsu.
C10_FlagsFromDetector ==
  pc = "params"
    => /\ CP.enableCamera
            <=> (is_ecu_disconnected({args.fingerprint}, ECU_CAM) \/ args.has_relay)
       /\ CP.enableDsu
            <=> (is_ecu_disconnected({args.fingerprint}, ECU_DSU)
                   \/ (args.has_relay /\ args.candidate \in TSS2_CAR))
       /\ CP.enableApgs <=> is_ecu_disconnected({args.fingerprint}, ECU_APGS)
       /\ CP.openpilotLongitudinalControl <=> (CP.enableCamera /\ CP.enableDsu)

\* C10 amended: enableCamera and enableDsu are what the detector returns for
\* their ECU (with the relay overrides), enableApgs is false whatever the
\* detector returns, and longitudinal control is enableCamera and enableDsu.
C10_CameraDsuFromDetector ==
  pc = "params"
    => /\ CP.enableCamera
            <=> (is_ecu_disconnected({args.fingerprint}, ECU_CAM) \/ args.has_relay)
       /\ CP.enableDsu
            <=> (is_ecu_disconnected({args.fingerprint}, ECU_DSU)
                   \/ (args.has_relay /\ args.candidate \in TSS2_CAR))
       /\ ~ CP.enableApgs
       /\ CP.openpilotLongitudinalControl <=> (CP.enableCamera /\ CP.enableDsu)

\* C10 witness: the detector reports the parking-assist ECU absent and exactly
\* one of camera and DSU simulated: enableApgs is false, no longitudinal control
C10_Witness ==
  /\ pc = "params"
  /\ is_ecu_disconnected({args.fingerprint}, ECU_APGS)
  /\ ~ CP.enableApgs
  /\ CP.enableCamera
  /\ ~ CP.enableDsu
  /\ ~ CP.openpilotLongitudinalControl


\* C11: minEnableSpeed is -1 if the car is stop-and-go capable or the gas
\* interceptor is present (message 0x201 in the fingerprint) and 19 mph
\* otherwise; for the reference car without interceptor it is -1, the gas
\* limit curve is [0.5] at breakpoint [0] and the proportional gains are
\* [3.6, 2.4, 1.5].
C11_MinEnableSpeed ==
  pc = "params"
    => /\ CP.enableGasInterceptor <=> (INTERCEPTOR_MSG \in args.fingerprint)
       /\ CP.minEnableSpeed
            = IF LookupCar(args.candidate).stop_and_go \/ CP.enableGasInterceptor
                THEN -1000 ELSE 8494
       /\ (args.candidate = OLD_CAR /\ INTERCEPTOR_MSG \notin args.fingerprint)
            => /\ CP.minEnableSpeed = -1000
               /\ CP.gasMaxBP = <<0>>
               /\ CP.gasMaxV = <<500>>
               /\ CP.kpV = <<3600, 2400, 1500>>

\* C11 witness: parameters of the reference car, interceptor absent
C11_Witness ==
  /\ pc = "params"
  /\ args.candidate = OLD_CAR
  /\ INTERCEPTOR_MSG \notin args.fingerprint
  /\ CP.minEnableSpeed = -1000
  /\ CP.gasMaxV = <<500>>

\* C12: with the interceptor gasPressed is true iff the raw pedal value is
\* above 15 (false at 15, true at 16), without it iff the value is above 0.
C12_GasPressedThreshold ==
  Updated =>
    /\ CP.enableGasInterceptor => (ret.gasPressed <=> CS.pedal_gas > 15)
    /\ ~ CP.enableGasInterceptor => (ret.gasPressed <=> CS.pedal_gas > 0)

\* C12 witness: interceptor present, raw pedal value 15, not pressed
C12_Witness ==
  /\ Updated
  /\ CP.enableGasInterceptor
  /\ CS.pedal_gas = 15
  /\ ~ ret.gasPressed

\* the carried-forward flags of the instance
Flags == <<gas_pressed_prev, brake_pressed_prev, cruise_enabled_prev>>

\* a step of update() or apply() on the constructed instance
InstanceStep == pc = "ready" /\ pc' = "ready"

\* C13: the parameters are never mutated after construction: across update()
\* and apply() every field of CP keeps the value it had at construction.
C13_ParamsFrozen ==
  [][(pc \in {"params", "ready"} /\ pc' = "ready") => CP' = CP]_vars

\* C13 witness: update() and apply() have both run on an instance built with
\* the interceptor and without camera and DSU simulation
C13_Witness ==
  /\ Updated
  /\ frame = MaxFrame
  /\ sent # <<>>
  /\ CP.enableGasInterceptor
  /\ ~ CP.enableCamera
  /\ ~ CP.enableDsu
  /\ CP.minEnableSpeed = -1000

\* C14 as stated: update() and apply() change nothing of the instance but the
\* three carried flags and the camera-invalid counter.
C14_OnlyFlagsAndCounter ==
  [][InstanceStep
       => /\ CP' = CP
          /\ frame' = frame
          /\ forwarding_camera' = forwarding_camera]_vars

\* C14 amended: update() changes the three carried flags, the camera parser
\* (with its invalid counter), the signal state and the forwarding_camera
\* latch, which only goes from false to true; apply() changes the frame
\* counter, by one, and nothing else; neither changes the parameters.
C14_MutableState ==
  [][InstanceStep
       => /\ CP' = CP
          /\ frame' \in {frame, frame + 1}
          /\ frame' = frame
               => /\ forwarding_camera => forwarding_camera'
                  /\ sent' = sent
          /\ frame' = frame + 1
               => /\ Flags' = Flags
                  /\ cp_cam' = cp_cam
                  /\ CS' = CS
                  /\ forwarding_camera' = forwarding_camera]_vars

\* C14 witness: after cycles that raised the gas flag, the latch and the
\* invalid counter, apply() has advanced the frame counter
C14_Witness ==
  /\ Updated
  /\ frame = 1
  /\ forwarding_camera
  /\ gas_pressed_prev
  /\ cp_cam.can_invalid_cnt > 0

Override == create_event("pedalPressed", {"NO_ENTRY", "USER_DISABLE"})
PreEnable == create_event("pedalPressed", {"PRE_ENABLE"})

\* C15: a cycle emits the pre-enable advisory (pedalPressed {PRE_ENABLE}) iff
\* gasPressed is true, whether or not rule 12 fires; on a gas rising edge the
\* driver override and the pre-enable advisory are both in the cycle's list.
C15_PreEnableEveryCycle ==
  [][UpdateCycle
       => /\ CountEvents(ret'.events, PreEnable.name, PreEnable.types)
               = IF ret'.gasPressed THEN 1 ELSE 0
          /\ (ret'.gasPressed /\ ~ PrevGasPressed)
               => /\ CountEvents(ret'.events, Override.name, Override.types) = 1
                  /\ CountEvents(ret'.events, PreEnable.name, PreEnable.types) = 1]_vars

\* C15 witness: a gas rising edge without brake has put both events in the list
C15_Witness ==
  /\ Updated
  /\ ret.gasPressed
  /\ ~ ret.brakePressed
  /\ \E i, j \in DOMAIN ret.events :
       i < j /\ ret.events[i] = Override /\ ret.events[j] = PreEnable

\* the events of the rules 1 to 13, in rule order (rule 11 is either of two)
EventOrder ==
  << create_event("invalidGiraffeToyota", {"PERMANENT"}),
     create_event("wrongGear", {"NO_ENTRY", "SOFT_DISABLE"}),
     create_event("doorOpen", {"NO_ENTRY", "SOFT_DISABLE"}),
     create_event("seatbeltNotLatched", {"NO_ENTRY", "SOFT_DISABLE"}),
     create_event("espDisabled", {"NO_ENTRY", "SOFT_DISABLE"}),
     create_event("wrongCarMode", {"NO_ENTRY", "USER_DISABLE"}),
     create_event("reverseGear", {"NO_ENTRY", "IMMEDIATE_DISABLE"}),
     create_event("steerTempUnavailable", {"NO_ENTRY", "WARNING"}),
     create_event("lowSpeedLockout", {"NO_ENTRY", "PERMANENT"}),
     create_event("speedTooLow", {"NO_ENTRY"}),
     create_event("speedTooLow", {"IMMEDIATE_DISABLE"}),
     create_event("manualRestart", {"WARNING"}),
     create_event("pcmEnable", {"ENABLE"}),
     create_event("pcmDisable", {"USER_DISABLE"}),
     Override,
     PreEnable >>

RankOf(e) == CHOOSE i \in DOMAIN EventOrder : EventOrder[i] = e

\* the rule of event number i holds on the signals of the cycle just run
Produced(i) ==
  LET slow == ret'.vEgo < CP.minEnableSpeed /\ CP.enableDsu
  IN CASE i = 1 -> cp_cam'.can_invalid_cnt >= 100 /\ CP.enableCamera
       [] i = 2 -> ret'.gearShifter # "drive" /\ CP.enableDsu
       [] i = 3 -> ret'.doorOpen
       [] i = 4 -> ret'.seatbeltUnlatched
       [] i = 5 -> CS'.esp_disabled /\ CP.enableDsu
       [] i = 6 -> ~ CS'.main_on /\ CP.enableDsu
       [] i = 7 -> ret'.gearShifter = "reverse" /\ CP.enableDsu
       [] i = 8 -> CS'.steer_error
       [] i = 9 -> CS'.low_speed_lockout /\ CP.enableDsu
       [] i = 10 -> slow
       [] i = 11 -> slow /\ c'.gas > 100
       [] i = 12 -> slow /\ ret'.vEgo < 1
       [] i = 13 -> ret'.cruiseEnabled /\ ~ PrevCruiseEnabled
       [] i = 14 -> ~ ret'.cruiseEnabled
       [] i = 15 -> \/ ret'.gasPressed /\ ~ PrevGasPressed
                    \/ ret'.brakePressed /\ (~ PrevBrakePressed \/ ret'.vEgo > 1)
       [] i = 16 -> ret'.gasPressed

\* C16: the list returned by update() is in rule order (camera-link-lost,
\* wrong-gear, door-open, seatbelt, esp-disabled, wrong-car-mode, reverse-gear,
\* steer-unavailable, low-speed-lockout, speed-too-low {NO_ENTRY}, speed-too-low
\* {IMMEDIATE_DISABLE}, manual-restart, engage/disengage request, driver
\* override, pre-enable advisory) and holds exactly the events whose rule holds
\* in that cycle, each once: nothing is carried over from an earlier cycle.
C16_RuleOrder ==
  [][UpdateCycle
       => LET ev == ret'.events
          IN /\ \A k \in DOMAIN ev : \E i \in DOMAIN EventOrder : EventOrder[i] = ev[k]
             /\ \A k, l \in DOMAIN ev : k < l => RankOf(ev[k]) < RankOf(ev[l])
             /\ ~ (Named(ev, "pcmEnable") # {} /\ Named(ev, "pcmDisable") # {})
             /\ \A i \in DOMAIN EventOrder :
                  (\E k \in DOMAIN ev : ev[k] = EventOrder[i]) <=> Produced(i)]_vars

\* C16 witness: a cycle in which all thirteen rules fire (rule 11 as the
\* disengage request): fifteen events, from the camera event to the pre-enable
\* advisory
C16_Witness ==
  /\ Updated
  /\ Len(ret.events) = 15
  /\ ret.events[1] = EventOrder[1]
  /\ ret.events[15] = PreEnable

\* C18: while the gas pedal is held over consecutive cycles with the brake
\* released, the driver override is emitted in the first of them only (the one
\* after a cycle with gasPressed false, or the first of the instance) and the
\* pre-enable advisory in all; after each update() the carried flags equal the
\* gasPressed, brakePressed and cruiseState.enabled of that cycle.
C18_HeldGas ==
  [][UpdateCycle
       => /\ Flags' = <<ret'.gasPressed, ret'.brakePressed, ret'.cruiseEnabled>>
          /\ (ret'.gasPressed /\ ~ ret'.brakePressed)
               => /\ CountEvents(ret'.events, Override.name, Override.types)
                       = IF PrevGasPressed THEN 0 ELSE 1
                  /\ Named(ret'.events, "pedalPressed") # {}
                  /\ ret'.events[Len(ret'.events)] = PreEnable]_vars

\* C18 witness: a later cycle of a held gas pedal: pressed and carried, brake
\* released, no driver override, the pre-enable advisory alone
C18_Witness ==
  /\ Updated
  /\ ret.gasPressed
  /\ gas_pressed_prev
  /\ ~ ret.brakePressed
  /\ ~ brake_pressed_prev
  /\ Named(ret.events, "pedalPressed") # {}
  /\ \A i \in Named(ret.events, "pedalPressed") : ret.events[i] = PreEnable

\* C17 as stated: get_params returns enableCruise as the negation of the
\* interceptor flag: false when message 0x201 is in the fingerprint, true
\* when it is not.
C17_CruiseNegatesInterceptor ==
  pc = "params"
    => /\ CP.enableGasInterceptor <=> (INTERCEPTOR_MSG \in args.fingerprint)
       /\ CP.enableCruise <=> ~ CP.enableGasInterceptor

\* C17 witness: parameters returned with the interceptor detected and
\* enableCruise still true
C17_Witness ==
  /\ pc = "params"
  /\ INTERCEPTOR_MSG \in args.fingerprint
  /\ CP.enableGasInterceptor
  /\ CP.enableCruise

\* C19: forwarding_camera is a latch: false at construction, true from the
\* first update() cycle whose camera channel is valid, never reset by a later
\* update() or apply(), also when the channel is invalid again; apply() hands
\* its current value to the command encoder.
C19_ForwardingLatch ==
  [][/\ (pc = "params" /\ pc' = "ready") => ~ forwarding_camera'
     /\ UpdateCycle
          => forwarding_camera' = (forwarding_camera \/ cp_cam'.can_valid)
     /\ (InstanceStep /\ frame' # frame)
          => /\ sent' = <<forwarding_camera>>
             /\ forwarding_camera' = forwarding_camera]_vars

\* C19 witness: the latch is set, the camera channel is invalid again, and
\* apply() has handed the set latch to the encoder
C19_Witness ==
  /\ Updated
  /\ forwarding_camera
  /\ ~ cp_cam.can_valid
  /\ cp_cam.can_invalid_cnt > 1
  /\ sent = <<TRUE>>

\* C20: the parameters get_params returns for the only registered identity
\* have minEnableSpeed -1 for every fingerprint and relay flag, so no cycle
\* with speed >= 0 emits speedTooLow or manualRestart, whatever the DSU flag
\* and the commanded gas.
C20_NoSpeedEventsAtOrAboveZero ==
  /\ pc \in {"params", "ready"} => CP.minEnableSpeed = -1000
  /\ (Updated /\ ret.vEgo >= 0)
       => /\ Named(ret.events, "speedTooLow") = {}
          /\ Named(ret.events, "manualRestart") = {}

\* C20 witness: a standstill cycle with the DSU simulated and the commanded
\* gas above 0.1, and neither event in the list
C20_Witness ==
  /\ Updated
  /\ ret.vEgo = 0
  /\ CP.enableDsu
  /\ ~ CP.enableGasInterceptor
  /\ c.gas > 100
  /\ Named(ret.events, "speedTooLow") = {}
  /\ Named(ret.events, "manualRestart") = {}

=============================================================================
